---------------------------- MODULE Spec2Model ----------------------------
(***************************************************************************)
(* Import-time behaviour of the package matgendb (matgendb/__init__.py).   *)
(*                                                                         *)
(* The package body is five statements: the module docstring, three        *)
(* metadata assignments and `from .query_engine import QueryEngine`.  The  *)
(* model follows the interpreter through those statements, one action per  *)
(* statement, and through the steps of the from-import: finding or         *)
(* creating the submodule, running its body, binding the loaded submodule  *)
(* on the package, and fetching and storing the imported name.             *)
(*                                                                         *)
(* The body of matgendb/query_engine.py is a sequence of statements drawn  *)
(* from a small alphabet and fixed in the initial state.                   *)
(***************************************************************************)
EXTENDS Naturals, Sequences, FiniteSets

VARIABLES
    sys_modules,  \* names of the modules registered in sys.modules
    pkg,          \* namespace of the module object matgendb (name -> value)
    qe,           \* namespace of the module object matgendb.query_engine
    body,         \* the statements of query_engine.py
    status,       \* "unimported", "initializing", "imported" or "error"
    pc,           \* index in InitLines of the next statement of __init__.py
    phase,        \* "line", or inside the from-import: "exec", "from"
    ip,           \* index in body of the next statement of query_engine.py
    nextId,       \* identity given to the next object that is created
    imports       \* `import matgendb` statements the client has executed

vars == <<sys_modules, pkg, qe, body, status, pc, phase, ip, nextId, imports>>

\* Longest body of query_engine.py that is explored.
MaxBody == 3
\* Number of `import matgendb` statements the client executes.
MaxImports == 2

(***************************************************************************)
(* Values                                                                  *)
(***************************************************************************)
Str(t) == [kind |-> "str", s |-> t, id |-> 0]
Obj(i) == [kind |-> "object", s |-> "", id |-> i]
Mod(name) == [kind |-> "module", s |-> name, id |-> 0]
NoneV == [kind |-> "none", s |-> "", id |-> 0]

EmptyNS == [n \in {} |-> NoneV]

\* STORE_NAME / setattr: ns with name n bound to v
Bind(ns, n, v) == [x \in DOMAIN ns \cup {n} |-> IF x = n THEN v ELSE ns[x]]

PackageName == "matgendb"
SubmoduleAttr == "query_engine"
SubmoduleName == "matgendb.query_engine"

\* What a module object holds before its body runs; only a package has
\* __path__.
MachineryNames == {"__name__", "__doc__", "__package__", "__file__", "__path__", "__builtins__"}
ModuleAttrs(name, file, isPackage) ==
    [n \in (IF isPackage THEN MachineryNames ELSE MachineryNames \ {"__path__"}) |->
        CASE n = "__name__" -> Str(name)
          [] n = "__doc__" -> NoneV
          [] n = "__package__" -> Str(PackageName)
          [] n = "__file__" -> Str(file)
          [] n = "__path__" -> Str("matgendb")
          [] OTHER -> Mod("builtins")]
PackageAttrs == ModuleAttrs(PackageName, "matgendb/__init__.py", TRUE)
SubmoduleAttrs == ModuleAttrs(SubmoduleName, "matgendb/query_engine.py", FALSE)

(***************************************************************************)
(* matgendb/__init__.py                                                    *)
(***************************************************************************)
Docstring == "\nPymatgen-db is a database add-on for the Python Materials Genomics (pymatgen)\nmaterials analysis library. It enables the creation of Materials\nProject-style MongoDB databases for management of materials data and\nprovides a clean and intuitive web ui for exploring that data. A query engine\nis also provided to enable the easy translation of MongoDB docs to useful\npymatgen objects for analysis purposes.\n"
AuthorString == "Shyue Ping Ong, Dan Gunter"
DateString == "Oct 9 2014"
\* (variant: the version string of the previous release)
VersionStringOld == "0.4.2"
VersionString == "0.4.3"

\* The statements of the file in the order the interpreter runs them.
\* (variant: the import moved above the version assignment)
InitLinesImportFirst == <<"__doc__", "__author__", "__date__", "import", "__version__">>
InitLines == <<"__doc__", "__author__", "__date__", "__version__", "import">>

\* (variant: a name the submodule does not define)
ImportedNameMisspelt == "QueryEngin"
ImportedName == "QueryEngine"

\* The names `from .query_engine import ...` fetches from the submodule.
\* (variant: `import *`, every public name of the submodule)
ImportFromStar(ns) == DOMAIN ns \ (MachineryNames \cup {"__version__"})
ImportFromNames(ns) == {ImportedName}

\* The value the from-import stores for name n of the submodule's namespace.
\* (variant: the submodule itself stored under the name)
ImportFromModule(ns, n) == Mod(SubmoduleName)
ImportFromValue(ns, n) == ns[n]

AtLine(tag) ==
    /\ status = "initializing"
    /\ phase = "line"
    /\ pc \in 1..Len(InitLines)
    /\ InitLines[pc] = tag

\* An assignment statement of the package body: the name is stored in the
\* package's namespace and the next statement is up.
Assign(n, v) ==
    /\ pkg' = Bind(pkg, n, v)
    /\ pc' = pc + 1
    /\ UNCHANGED <<sys_modules, qe, body, status, phase, ip, nextId, imports>>

ExecDocstring ==
    /\ AtLine("__doc__")
    /\ Assign("__doc__", Str(Docstring))

AssignAuthor ==
    /\ AtLine("__author__")
    /\ Assign("__author__", Str(AuthorString))

AssignDate ==
    /\ AtLine("__date__")
    /\ Assign("__date__", Str(DateString))

AssignVersion ==
    /\ AtLine("__version__")
    /\ Assign("__version__", Str(VersionString))

\* The import statement raised while the submodule's body was running: the
\* submodule and the package are taken out of sys.modules.
FailLoad ==
    /\ sys_modules' = sys_modules \ {SubmoduleName, PackageName}
    /\ status' = "error"
    /\ UNCHANGED <<pkg, qe, body, pc, phase, ip, nextId, imports>>

\* The from-import raised ImportError: the package is taken out of sys.modules.
FailImport ==
    /\ sys_modules' = sys_modules \ {PackageName}
    /\ status' = "error"
    /\ UNCHANGED <<pkg, qe, body, pc, phase, ip, nextId, imports>>

\* from .query_engine import QueryEngine: find the submodule; one that is not
\* in sys.modules is created, registered and its body started.
ImportFromFind ==
    /\ AtLine("import")
    /\ IF SubmoduleName \in sys_modules
       THEN /\ phase' = "from"
            /\ UNCHANGED <<sys_modules, qe, ip>>
       ELSE /\ sys_modules' = sys_modules \cup {SubmoduleName}
            /\ qe' = SubmoduleAttrs
            /\ ip' = 1
            /\ phase' = "exec"
    /\ UNCHANGED <<pkg, body, status, pc, nextId, imports>>

\* The submodule's body ran to its end: the import system binds the loaded
\* submodule on its parent package.
FinishLoad ==
    /\ status = "initializing"
    /\ phase = "exec"
    /\ ip > Len(body)
    /\ pkg' = Bind(pkg, SubmoduleAttr, Mod(SubmoduleName))
    /\ phase' = "from"
    /\ UNCHANGED <<sys_modules, qe, body, status, pc, ip, nextId, imports>>

\* from .query_engine import QueryEngine: fetch the names from the submodule
\* and store them in the package.
ImportFromBind ==
    /\ status = "initializing"
    /\ phase = "from"
    /\ LET names == ImportFromNames(qe) IN
       IF names \subseteq DOMAIN qe
       THEN /\ pkg' = [x \in DOMAIN pkg \cup names |->
                          IF x \in names THEN ImportFromValue(qe, x) ELSE pkg[x]]
            /\ pc' = pc + 1
            /\ phase' = "line"
            /\ UNCHANGED <<sys_modules, qe, body, status, ip, nextId, imports>>
       ELSE FailImport

\* The last statement of the package body has run.
FinishInit ==
    /\ status = "initializing"
    /\ phase = "line"
    /\ pc > Len(InitLines)
    /\ status' = "imported"
    /\ UNCHANGED <<sys_modules, pkg, qe, body, pc, phase, ip, nextId, imports>>

\* A client executes `import matgendb`: a package in sys.modules is returned
\* as it is, otherwise a module object is created, registered and its body
\* started.
ClientImport ==
    /\ status # "initializing"
    /\ imports < MaxImports
    /\ imports' = imports + 1
    /\ IF PackageName \in sys_modules
       THEN UNCHANGED <<sys_modules, pkg, status, pc, phase>>
       ELSE /\ sys_modules' = sys_modules \cup {PackageName}
            /\ pkg' = PackageAttrs
            /\ status' = "initializing"
            /\ pc' = 1
            /\ phase' = "line"
    /\ UNCHANGED <<qe, body, ip, nextId>>

(***************************************************************************)
(* matgendb/query_engine.py                                                *)
(***************************************************************************)
QEStmts == {"class", "helper", "circ"}
QEStmtsAny == QEStmts \cup {"raise"}

AtStmt(kind) ==
    /\ status = "initializing"
    /\ phase = "exec"
    /\ ip \in 1..Len(body)
    /\ body[ip] = kind

\* A definition in the submodule: a new object bound to name n.
QEDefine(n) ==
    /\ qe' = Bind(qe, n, Obj(nextId))
    /\ nextId' = nextId + 1
    /\ ip' = ip + 1
    /\ UNCHANGED <<sys_modules, pkg, body, status, pc, phase, imports>>

\* class QueryEngine(object): ...
QEClassDef ==
    /\ AtStmt("class")
    /\ QEDefine("QueryEngine")

\* any other top-level definition
QEHelperDef ==
    /\ AtStmt("helper")
    /\ QEDefine("helper")

\* from matgendb import __version__, run while the package is still being
\* initialized: the package is found in sys.modules as it is at that moment.
QECircularImport ==
    /\ AtStmt("circ")
    /\ IF PackageName \in sys_modules /\ "__version__" \in DOMAIN pkg
       THEN /\ qe' = Bind(qe, "__version__", pkg["__version__"])
            /\ ip' = ip + 1
            /\ UNCHANGED <<sys_modules, pkg, body, status, pc, phase, nextId, imports>>
       ELSE FailLoad

\* a statement that raises
QERaise ==
    /\ AtStmt("raise")
    /\ FailLoad

(***************************************************************************)
(* Specifications                                                          *)
(***************************************************************************)
SeqsUpTo(S, n) == UNION {[1..k -> S] : k \in 0..n}

Start ==
    /\ sys_modules = {}
    /\ pkg = EmptyNS
    /\ qe = EmptyNS
    /\ status = "unimported"
    /\ pc = 0
    /\ phase = "line"
    /\ ip = 0
    /\ nextId = 1
    /\ imports = 0

\* query_engine.py as the package's description has it: it loads and defines
\* QueryEngine.
Init ==
    /\ Start
    /\ body \in {b \in SeqsUpTo(QEStmts, MaxBody) : \E i \in 1..Len(b) : b[i] = "class"}

\* query_engine.py with any body, one that raises or one that lacks
\* QueryEngine included.
InitAny ==
    /\ Start
    /\ body \in SeqsUpTo(QEStmtsAny, MaxBody)

\* The steps of the interpreter inside `import matgendb`.
InitStep ==
    \/ ExecDocstring
    \/ AssignAuthor
    \/ AssignDate
    \/ AssignVersion
    \/ ImportFromFind
    \/ QEClassDef
    \/ QEHelperDef
    \/ QECircularImport
    \/ FinishLoad
    \/ ImportFromBind
    \/ FinishInit

Next == ClientImport \/ InitStep

NextAny == Next \/ QERaise

Spec == Init /\ [][Next]_vars

\* The interpreter does not stop in the middle of a module body.
FairSpec == Spec /\ WF_vars(InitStep)

SpecAnyBody == InitAny /\ [][NextAny]_vars

(***************************************************************************)
(* Properties                                                              *)
(***************************************************************************)
MetadataBound ==
    /\ {"__author__", "__date__", "__version__"} \subseteq DOMAIN pkg
    /\ pkg["__author__"] = Str("Shyue Ping Ong, Dan Gunter")
    /\ pkg["__date__"] = Str("Oct 9 2014")
    /\ pkg["__version__"] = Str("0.4.3")

\* C1: once the package has been imported it has the attribute QueryEngine,
\* and that attribute is the object bound to QueryEngine in the module
\* matgendb.query_engine registered in sys.modules.
C1_ReExportIsSameObject ==
    status = "imported" =>
        /\ "QueryEngine" \in DOMAIN pkg
        /\ "matgendb.query_engine" \in sys_modules
        /\ "QueryEngine" \in DOMAIN qe
        /\ pkg["QueryEngine"] = qe["QueryEngine"]

\* The submodule defined QueryEngine twice and a helper besides: the package
\* holds the object of the second definition.
C1_Witness ==
    /\ status = "imported"
    /\ "helper" \in DOMAIN qe
    /\ "QueryEngine" \in DOMAIN pkg
    /\ pkg["QueryEngine"] = Obj(3)

C3_VersionIsBound ==
    /\ status = "imported" => "__version__" \in DOMAIN pkg
    /\ "__version__" \in DOMAIN pkg => pkg["__version__"] = Str("0.4.3")

\* The package was imported and then imported again from sys.modules.
C3_Witness ==
    /\ status = "imported"
    /\ imports >= 2
    /\ "__version__" \in DOMAIN pkg

InitBoundNames == {"__doc__", "__author__", "__date__", "__version__", "QueryEngine"}

\* C4 as stated: after import the package's namespace holds, beyond what
\* the module object started with, only the docstring, the three metadata
\* names and QueryEngine.
C4_OnlyListedNames ==
    status = "imported" => DOMAIN pkg \subseteq MachineryNames \cup InitBoundNames

\* C4 as amended: after import the package's namespace holds, beyond what
\* the module object started with, only the docstring, the three metadata
\* names, QueryEngine and the submodule's own name query_engine, which is
\* bound to the submodule; what the module object started with other than
\* __doc__ is unchanged.
C4_OnlyListedNamesAndSubmodule ==
    status = "imported" =>
        /\ DOMAIN pkg \subseteq MachineryNames \cup InitBoundNames \cup {"query_engine"}
        /\ "query_engine" \in DOMAIN pkg => pkg["query_engine"] = Mod("matgendb.query_engine")
        /\ \A n \in MachineryNames \ {"__doc__"} :
              n \in DOMAIN pkg /\ pkg[n] = PackageAttrs[n]

\* The submodule defined a name other than QueryEngine, and the package was
\* imported with the submodule bound on it.
C4_Witness ==
    /\ status = "imported"
    /\ "helper" \in DOMAIN qe
    /\ "query_engine" \in DOMAIN pkg

\* C5: whenever the body of query_engine has been started, __author__,
\* __date__ and __version__ are bound on the package; a circular import of
\* the package's __version__ from inside query_engine gets "0.4.3"; and an
\* import that failed left the metadata bound and QueryEngine unbound.
C5_MetadataBeforeSubmodule ==
    /\ phase = "exec" => MetadataBound
    /\ "__version__" \in DOMAIN qe => qe["__version__"] = Str("0.4.3")
    /\ status = "error" => MetadataBound /\ "QueryEngine" \notin DOMAIN pkg

\* query_engine read the package's __version__ and then raised.
C5_Witness ==
    /\ status = "error"
    /\ phase = "exec"
    /\ "matgendb.query_engine" \notin sys_modules
    /\ "__version__" \in DOMAIN qe

=============================================================================
